---- MODULE Spec2Model ----
(***************************************************************************)
(* Model of the silence-cut engine: detectSilence and generateFfmpegScript *)
(* (src/utils/audioAnalysis.ts), the App component that orchestrates them  *)
(* (src/unnamed/part_001), the AI analysis it awaits (src/unnamed/part_002)*)
(* and the trim controls and the virtual time of the preview               *)
(* (src/components/VideoPreview.tsx, src/unnamed/part_003).                *)
(*                                                                         *)
(* Representation of numbers.                                              *)
(*  - Times (seconds, JS doubles) are fixed-point integers counted in      *)
(*    ticks of 1/TicksPerSec second.  The sample rates of the model divide *)
(*    TicksPerSec, so i / sampleRate is exact in ticks.  No run of the     *)
(*    enumerated buffers lasts exactly a minSilenceDuration value, so the  *)
(*    rounding of doubles decides no comparison of the code.               *)
(*  - Sample amplitudes are integers in units of 1/1000 (0.005 is 5).      *)
(*  - minSilenceDuration is counted in tenths of a second (the slider      *)
(*    step, part_001:372-377).                                             *)
(***************************************************************************)
EXTENDS Integers, Sequences, FiniteSets, TLC

VARIABLES
    \* ---- one call of detectSilence (audioAnalysis.ts:9-82) ----
    rawData,            \* audioBuffer.getChannelData(0)
    sampleRate,         \* audioBuffer.sampleRate
    dThresholdDb,       \* parameter thresholdDb
    dMinSilence,        \* parameter minSilenceDuration (tenths of a second)
    loop,               \* locals of the window loop: i, segments, isCurrentlySilent, segmentStart
    mergedSegments,     \* local mergedSegments, the returned timeline
    dpc                 \* position in the call: "loop", "raw", "done"

detVars == <<rawData, sampleRate, dThresholdDb, dMinSilence, loop, mergedSegments, dpc>>

VARIABLES
    \* ---- the trim filter of generateFfmpegScript (audioAnalysis.ts:109-122) ----
    eSegments,          \* parameter segments
    eTrimStart,         \* config.trimStart
    eTrimEnd,           \* config.trimEnd
    activeSegments,     \* local activeSegments
    eFinalDuration,     \* what calculateFinalDuration (part_001:86-98) returns for the same input
    epc                 \* "in" before the calls, "out" after the filter, "done" after both

expVars == <<eSegments, eTrimStart, eTrimEnd, activeSegments, eFinalDuration, epc>>

VARIABLES
    \* ---- one call of generateFfmpegScript (audioAnalysis.ts:97-242) ----
    gSegments,          \* parameter segments
    gFilename,          \* parameter filename, a sequence of characters
    gPlatform,          \* parameter platform
    gConfig,            \* parameter config: format, trimStart, trimEnd, bgMusicName
    gActive,            \* local activeSegments
    gIndex,             \* index of the forEach over activeSegments
    fileList,           \* local fileList, one entry per line
    script,             \* local script, one record per line; the returned text
    gpc                 \* position in the call: "filter", "header", "extract", "concat", "done"

scrVars == <<gSegments, gFilename, gPlatform, gConfig, gActive, gIndex, fileList, script, gpc>>

VARIABLES
    \* ---- the App component (part_001:22-158, 276-281, 352-392, 462-479) ----
    file,               \* useState file
    segments,           \* useState segments
    state,              \* useState state (ProcessingState)
    thresholdDb,        \* useState thresholdDb
    minSilenceDuration, \* useState minSilenceDuration (tenths of a second)
    aiAnalysis,         \* useState aiAnalysis
    exportConfig,       \* useState exportConfig
    originalDuration,   \* useState originalDuration
    finalDuration,      \* useState finalDuration
    pending,            \* promises awaited by a handler, with the values its closure captured
    issued,             \* number of asynchronous operations started so far
    latestDetect,       \* id of the detection run started last (0: none)
    dragMode,           \* useState dragMode of the Timeline (part_003:25); "none" is null
    download            \* the script handed to the browser by downloadScript, and how many so far

appVars == <<file, segments, state, thresholdDb, minSilenceDuration, aiAnalysis,
             exportConfig, originalDuration, finalDuration, pending, issued,
             latestDetect, dragMode, download>>

VARIABLES
    \* ---- one call of calculateVirtualTime (VideoPreview.tsx:75-97) ----
    pSegments,          \* prop segments
    pTrimStart,         \* exportConfig.trimStart
    pTrimEnd,           \* exportConfig.trimEnd
    pRealTime,          \* parameter realTime
    pVirtual,           \* the returned value
    ppc                 \* "in" before the call, "done" after it

pvVars == <<pSegments, pTrimStart, pTrimEnd, pRealTime, pVirtual, ppc>>

vars == <<detVars, expVars, scrVars, appVars, pvVars>>

----------------------------------------------------------------------------
(* Bounds and input domains *)

\* resolution of the fixed-point times: ticks per second
TicksPerSec == 192

\* longest sample buffer that is enumerated
MaxSamples == 7

\* sample amplitudes, in 1/1000
Levels == {0, 5, 50}

\* sample rates of the enumerated buffers (Hz); at 16 Hz a window of 0.05 s
\* holds less than one sample
SampleRates == {16, 32, 48, 64}

\* threshold values handed to detectSilence (dB, slider range -60..-10)
ThresholdDbs == {-60, -40, -35, -20}

\* minSilenceDuration values, in tenths of a second (slider range 0.1..2.0)
MinSilences == {1, 2, 5}

Min(a, b) == IF a < b THEN a ELSE b
Max(a, b) == IF a > b THEN a ELSE b

BoundedSeq(S, n) == UNION {[1..k -> S] : k \in 0..n}

----------------------------------------------------------------------------
(* detectSilence, audioAnalysis.ts:9-82 *)

Segment(s, e, sil) == [start |-> s, end |-> e, isSilent |-> sil]

\* Math.pow(10, thresholdDb / 20), squared, in units of 1e-9
\* (10^(dB/10) * 1e9, rounded to the nearest integer)
ThresholdPower(thrDb) ==
    CASE thrDb = -60 -> 1000
      [] thrDb = -40 -> 100000
      [] thrDb = -35 -> 316228
      [] thrDb = -20 -> 10000000

\* const windowSize = Math.floor(sampleRate * 0.05)
WindowSize(rate) == (rate * 5) \div 100

\* i / sampleRate, in ticks
TimeOf(i, rate) == (i * TicksPerSec) \div rate

\* sum of rawData[j]^2 for j in [from, to)  (JS indices, 0-based)
RECURSIVE SumSquares(_, _, _)
SumSquares(data, from, to) ==
    IF from >= to THEN 0
    ELSE data[from + 1] * data[from + 1] + SumSquares(data, from + 1, to)

\* rms < threshold, for the window [i, end): sqrt(sum / n) < t  <=>  sum < n * t^2
\* (amplitudes are in 1e-3, so squares are in 1e-6: scale by 1000 to 1e-9)
IsSilentFrame(data, i, end, thrDb) ==
    SumSquares(data, i, end) * 1000 < (end - i) * ThresholdPower(thrDb)

\* locals before the first iteration (lines 17, 22, 23, 28)
LoopInit == [i |-> 0, segments |-> <<>>, isCurrentlySilent |-> FALSE, segmentStart |-> 0]

\* one iteration of the window loop with the segmentStart update left out
WindowStepKeepStart(data, rate, thrDb, st) ==
    LET windowSize == WindowSize(rate)
        end == Min(st.i + windowSize, Len(data))
        isSilentFrame == IsSilentFrame(data, st.i, end, thrDb)
        currentTime == TimeOf(st.i, rate)
        cur == IF st.i = 0 THEN isSilentFrame ELSE st.isCurrentlySilent
    IN  IF isSilentFrame # cur
        THEN [i |-> st.i + windowSize,
              segments |-> Append(st.segments, Segment(st.segmentStart, currentTime, cur)),
              isCurrentlySilent |-> isSilentFrame,
              segmentStart |-> st.segmentStart]
        ELSE [st EXCEPT !.i = st.i + windowSize, !.isCurrentlySilent = cur]

\* one iteration of the window loop (lines 28-55)
WindowStep(data, rate, thrDb, st) ==
    LET windowSize == WindowSize(rate)
        end == Min(st.i + windowSize, Len(data))
        isSilentFrame == IsSilentFrame(data, st.i, end, thrDb)
        currentTime == TimeOf(st.i, rate)
        cur == IF st.i = 0 THEN isSilentFrame ELSE st.isCurrentlySilent
        segStart == IF st.i = 0 THEN 0 ELSE st.segmentStart
    IN  IF isSilentFrame # cur
        THEN [i |-> st.i + windowSize,
              segments |-> Append(st.segments, Segment(segStart, currentTime, cur)),
              isCurrentlySilent |-> isSilentFrame,
              segmentStart |-> currentTime]
        ELSE [i |-> st.i + windowSize,
              segments |-> st.segments,
              isCurrentlySilent |-> cur,
              segmentStart |-> segStart]

\* "Push final segment" (lines 58-62)
PushFinal(data, rate, st) ==
    Append(st.segments,
           Segment(st.segmentStart, TimeOf(Len(data), rate), st.isCurrentlySilent))

\* the window loop run to its exit (defined for windowSize > 0)
RECURSIVE RunWindows(_, _, _, _)
RunWindows(data, rate, thrDb, st) ==
    IF st.i < Len(data)
    THEN RunWindows(data, rate, thrDb, WindowStep(data, rate, thrDb, st))
    ELSE st

\* the raw run list: `segments` at line 63
RawSegments(data, rate, thrDb) ==
    PushFinal(data, rate, RunWindows(data, rate, thrDb, LoopInit))

\* the gate test of line 70: seg.isSilent && (seg.end - seg.start) < minSilenceDuration
IsShortSilence(seg, minSilence) ==
    seg.isSilent /\ (seg.end - seg.start) * 10 < minSilence * TicksPerSec

\* body of the merge loop with the gate test never taken
GateStepNoGate(merged, seg0, minSilence) ==
    IF Len(merged) > 0 /\ merged[Len(merged)].isSilent = seg0.isSilent
    THEN [merged EXCEPT ![Len(merged)].end = seg0.end]
    ELSE Append(merged, seg0)

\* body of the merge loop that always pushes
GateStepNoMerge(merged, seg0, minSilence) ==
    Append(merged, IF IsShortSilence(seg0, minSilence)
                   THEN [seg0 EXCEPT !.isSilent = FALSE] ELSE seg0)

\* body of the merge loop with the gate test taken by every silent segment
GateStepGateAll(merged, seg0, minSilence) ==
    LET seg == IF seg0.isSilent THEN [seg0 EXCEPT !.isSilent = FALSE] ELSE seg0
    IN  IF Len(merged) > 0 /\ merged[Len(merged)].isSilent = seg.isSilent
        THEN [merged EXCEPT ![Len(merged)].end = seg.end]
        ELSE Append(merged, seg)

\* body of the merge loop (lines 68-78)
GateStep(merged, seg0, minSilence) ==
    LET seg == IF IsShortSilence(seg0, minSilence)
               THEN [seg0 EXCEPT !.isSilent = FALSE] ELSE seg0
    IN  IF Len(merged) > 0 /\ merged[Len(merged)].isSilent = seg.isSilent
        THEN [merged EXCEPT ![Len(merged)].end = seg.end]
        ELSE Append(merged, seg)

\* the merge loop (lines 65-79), from index k (1-based) on
RECURSIVE GateFrom(_, _, _, _)
GateFrom(segs, k, merged, minSilence) ==
    IF k > Len(segs) THEN merged
    ELSE GateFrom(segs, k + 1, GateStep(merged, segs[k], minSilence), minSilence)

GateMerge(segs, minSilence) == GateFrom(segs, 1, <<>>, minSilence)

DetectSilence(data, rate, thrDb, minSilence) ==
    GateMerge(RawSegments(data, rate, thrDb), minSilence)

\* the local `segments` after the merge loop.  The loop writes into the
\* objects of the list: line 71 clears isSilent of segs[k], and line 75 sets
\* the end of the last object of mergedSegments, which is the object segs[last]
\* that line 77 pushed (last = 0: nothing pushed yet).
RECURSIVE SegmentsAfterGateFrom(_, _, _, _)
SegmentsAfterGateFrom(segs, k, last, minSilence) ==
    IF k > Len(segs) THEN segs
    ELSE LET gated == IF IsShortSilence(segs[k], minSilence)
                      THEN [segs EXCEPT ![k].isSilent = FALSE] ELSE segs
         IN  IF last > 0 /\ gated[last].isSilent = gated[k].isSilent
             THEN SegmentsAfterGateFrom([gated EXCEPT ![last].end = gated[k].end],
                                        k + 1, last, minSilence)
             ELSE SegmentsAfterGateFrom(gated, k + 1, k, minSilence)

SegmentsAfterGate(segs, minSilence) == SegmentsAfterGateFrom(segs, 1, 0, minSilence)

----------------------------------------------------------------------------
(* One call of detectSilence, step by step *)

DetInit ==
    /\ rawData \in BoundedSeq(Levels, MaxSamples)
    /\ sampleRate \in SampleRates
    /\ dThresholdDb \in ThresholdDbs
    /\ dMinSilence \in MinSilences
    /\ loop = LoopInit
    /\ mergedSegments = <<>>
    /\ dpc = "loop"

\* one iteration of the for loop of line 28
DetectWindow ==
    /\ dpc = "loop"
    /\ loop.i < Len(rawData)
    /\ loop' = WindowStep(rawData, sampleRate, dThresholdDb, loop)
    /\ UNCHANGED <<pvVars, expVars, appVars, scrVars, rawData, sampleRate, dThresholdDb, dMinSilence, mergedSegments, dpc>>

\* loop exit and the push of the final segment (lines 57-62)
DetectPushFinal ==
    /\ dpc = "loop"
    /\ loop.i >= Len(rawData)
    /\ loop' = [loop EXCEPT !.segments = PushFinal(rawData, sampleRate, loop)]
    /\ dpc' = "raw"
    /\ UNCHANGED <<pvVars, expVars, appVars, scrVars, rawData, sampleRate, dThresholdDb, dMinSilence, mergedSegments>>

\* the gating / merge pass and the return (lines 64-81); the pass writes
\* into the segment objects of the local `segments`
DetectGate ==
    /\ dpc = "raw"
    /\ mergedSegments' = GateMerge(loop.segments, dMinSilence)
    /\ loop' = [loop EXCEPT !.segments = SegmentsAfterGate(loop.segments, dMinSilence)]
    /\ dpc' = "done"
    /\ UNCHANGED <<pvVars, expVars, appVars, scrVars, rawData, sampleRate, dThresholdDb, dMinSilence>>

DetNext == DetectWindow \/ DetectPushFinal \/ DetectGate

\* no call of detectSilence under way
DetIdle ==
    /\ rawData = <<>>
    /\ sampleRate = 32
    /\ dThresholdDb = -40
    /\ dMinSilence = 5
    /\ loop = LoopInit
    /\ mergedSegments = <<>>
    /\ dpc = "idle"

----------------------------------------------------------------------------
(* The trim filter of generateFfmpegScript, audioAnalysis.ts:109-122 *)

\* longest timeline that is enumerated, in whole seconds
MaxTimelineSecs == 10

\* the filter predicate (lines 109-115) with the bounds of the trim range excluded
IsActiveInTrimStrict(s, trimStart, trimEnd) ==
    /\ ~s.isSilent
    /\ ~(s.end <= trimStart \/ s.start >= trimEnd)

\* the filter predicate (lines 109-115)
IsActiveInTrim(s, trimStart, trimEnd) ==
    /\ ~s.isSilent
    /\ ~(s.end < trimStart \/ s.start > trimEnd)

\* the map (lines 115-122): clamp to the trim range
ClampToTrim(s, trimStart, trimEnd) ==
    Segment(Max(s.start, trimStart), Min(s.end, trimEnd), FALSE)

\* const activeSegments = segments.filter(...).map(...)
ActiveSegments(segs, trimStart, trimEnd) ==
    LET kept == SelectSeq(segs, LAMBDA s : IsActiveInTrim(s, trimStart, trimEnd))
    IN  [k \in 1..Len(kept) |-> ClampToTrim(kept[k], trimStart, trimEnd)]

\* calculateFinalDuration with Math.max and Math.min exchanged in lines 92-93
RECURSIVE CalculateFinalDurationSwapped(_, _, _)
CalculateFinalDurationSwapped(segs, tStart, tEnd) ==
    IF segs = <<>> THEN 0
    ELSE LET s == Head(segs)
             start == Min(s.start, tStart)
             end == Max(s.end, tEnd)
             dur == IF s.isSilent THEN 0
                    ELSE IF s.end < tStart \/ s.start > tEnd THEN 0
                    ELSE IF end > start THEN end - start
                    ELSE 0
         IN  dur + CalculateFinalDurationSwapped(Tail(segs), tStart, tEnd)

\* calculateFinalDuration (part_001:86-98): the value handed to setFinalDuration
RECURSIVE CalculateFinalDuration(_, _, _)
CalculateFinalDuration(segs, tStart, tEnd) ==
    IF segs = <<>> THEN 0
    ELSE LET s == Head(segs)
             start == Max(s.start, tStart)
             end == Min(s.end, tEnd)
             dur == IF s.isSilent THEN 0
                    ELSE IF s.end < tStart \/ s.start > tEnd THEN 0
                    ELSE IF end > start THEN end - start
                    ELSE 0
         IN  dur + CalculateFinalDuration(Tail(segs), tStart, tEnd)

\* the timeline of a recording whose k-th second is silent iff cells[k]:
\* maximal runs of equal cells, the shape detectSilence returns
RECURSIVE CellRuns(_, _, _)
CellRuns(cells, k, acc) ==
    IF k > Len(cells) THEN acc
    ELSE IF k > 1 /\ cells[k] = cells[k - 1]
         THEN CellRuns(cells, k + 1, [acc EXCEPT ![Len(acc)].end = k * TicksPerSec])
         ELSE CellRuns(cells, k + 1,
                       Append(acc, Segment((k - 1) * TicksPerSec, k * TicksPerSec, cells[k])))

\* the timelines handed to the filter: the empty initial one and the
\* alternating partitions of [0, n) seconds, n up to MaxTimelineSecs
Timelines == {CellRuns(cells, 1, <<>>) : cells \in BoundedSeq(BOOLEAN, MaxTimelineSecs)}

\* trim bounds, on whole seconds
TrimTimes == {k * TicksPerSec : k \in 0..MaxTimelineSecs}

ExpInit ==
    /\ eSegments \in Timelines
    /\ eTrimStart \in TrimTimes
    /\ eTrimEnd \in TrimTimes
    /\ activeSegments = <<>>
    /\ eFinalDuration = 0
    /\ epc = "in"

\* generateFfmpegScript up to line 122
FilterSegments ==
    /\ epc = "in"
    /\ activeSegments' = ActiveSegments(eSegments, eTrimStart, eTrimEnd)
    /\ epc' = "out"
    /\ UNCHANGED <<pvVars, detVars, appVars, scrVars, eSegments, eTrimStart, eTrimEnd, eFinalDuration>>

\* calculateFinalDuration(segments, trimStart, trimEnd) on the same timeline and
\* trim range (part_001:114-117 calls it with the values the export reads)
FinalDuration ==
    /\ epc = "out"
    /\ eFinalDuration' = CalculateFinalDuration(eSegments, eTrimStart, eTrimEnd)
    /\ epc' = "done"
    /\ UNCHANGED <<pvVars, detVars, appVars, scrVars, eSegments, eTrimStart, eTrimEnd, activeSegments>>

ExpNext == FilterSegments \/ FinalDuration

\* no call of generateFfmpegScript under way
ExpIdle ==
    /\ eSegments = <<>>
    /\ eTrimStart = 0
    /\ eTrimEnd = 0
    /\ activeSegments = <<>>
    /\ eFinalDuration = 0
    /\ epc = "idle"

----------------------------------------------------------------------------
(* generateFfmpegScript, audioAnalysis.ts:85-242 *)
(*                                                                         *)
(* A name is a sequence of characters; a run of letters and digits that    *)
(* the code treats alike is written as one element ("clip").  The script   *)
(* is a sequence of lines, each a record of the values interpolated in it. *)
(* toFixed(4) gives an integer count of 1/10000 second.  The times of the  *)
(* model differ by 0 or 1 modulo 12 ticks, so no toFixed(4) argument lies  *)
(* halfway between two results and the rounding of doubles decides none.   *)

\* longest timeline handed to the generator, in whole seconds
MaxScriptSecs == 4

\* type ExportFormat (part_000:29), and a value outside it
ExportFormats == {"mp4", "mov", "avi", "mp3", "wav", "aac"}
UnsupportedFormat == "webm"

\* the characters escapeName escapes (line 88): double quote, backslash,
\* dollar sign, backtick (written "BACKTICK")
ShellSpecials == {"\"", "\\", "$", "BACKTICK"}

\* config.bgMusicName absent
NoBgMusic == <<>>

\* the source names and background-track names of the model
Filenames ==
    { <<"my", " ", " ", "clip", ".", "mp4">>,
      <<"a", "$", "b", ".", "v2", ".", "mov">>,
      <<"q", "\"", "BACKTICK", "\\", "r", ".", "wav">> }

BgMusicNames == { NoBgMusic, <<"bg", "$", "1", ".", "mp3">> }

\* escapeName (lines 85-95)
RECURSIVE EscapeName(_, _)
EscapeName(name, platform) ==
    IF platform = "unix"
    THEN IF name = <<>> THEN <<>>
         ELSE (IF Head(name) \in ShellSpecials THEN <<"\\", Head(name)>> ELSE <<Head(name)>>)
                 \o EscapeName(Tail(name), platform)
    ELSE name

\* filename.replace(/\s+/g, '_') (line 124)
RECURSIVE ReplaceWhitespace(_)
ReplaceWhitespace(name) ==
    IF name = <<>> THEN <<>>
    ELSE IF Head(name) = " "
         THEN IF Len(name) > 1 /\ name[2] = " "
              THEN ReplaceWhitespace(Tail(name))
              ELSE <<"_">> \o ReplaceWhitespace(Tail(name))
         ELSE <<Head(name)>> \o ReplaceWhitespace(Tail(name))

\* .replace(/\.[^/.]+$/, "") (line 124): a dot followed, up to the end, by one
\* or more characters that are neither "/" nor "."
StripExtension(name) ==
    LET dots == {i \in 1..Len(name) :
                    /\ name[i] = "."
                    /\ i < Len(name)
                    /\ \A j \in (i + 1)..Len(name) : name[j] \notin {"/", "."}}
    IN  IF dots = {} THEN name
        ELSE SubSeq(name, 1, (CHOOSE i \in dots : TRUE) - 1)

\* line 124
SafeName(filename) == StripExtension(ReplaceWhitespace(filename))

\* line 125
InputFilename(filename, platform) ==
    IF platform = "unix" THEN EscapeName(filename, "unix") ELSE filename

\* line 126; an absent name gives the empty string
BgMusicFilename(bgMusicName, platform) ==
    IF bgMusicName # NoBgMusic
    THEN (IF platform = "unix" THEN EscapeName(bgMusicName, "unix") ELSE bgMusicName)
    ELSE <<>>

\* ['mp3', 'wav'].includes(ext): aac taken for a video container
IsAudioOnlyWithoutAac(ext) == ext \in {"mp3", "wav"}

\* line 129
IsAudioOnly(ext) == ext \in {"mp3", "wav", "aac"}

\* line 130
OutputName(filename, ext) == SafeName(filename) \o <<"_edited", ".", ext>>

\* lines 133-143
VideoCodec(ext) ==
    IF IsAudioOnly(ext) THEN "null"
    ELSE IF ext = "avi" THEN "mpeg4"
    ELSE "libx264"

AudioCodec(ext) ==
    IF IsAudioOnly(ext) /\ ext = "wav" THEN "pcm_s16le"
    ELSE IF IsAudioOnly(ext) /\ ext = "mp3" THEN "libmp3lame"
    ELSE "aac"

\* lines 146-147
ConcatFile(platform) == IF platform = "win" THEN "segments\\list.txt" ELSE "segments/list.txt"

SegmentDir(platform) == IF platform = "win" THEN "segments\\" ELSE "segments/"

\* Number.prototype.toFixed(4) of t ticks: the count of 1/10000 s nearest to
\* it, the one larger in magnitude of two equally near
ToFixed4(t) ==
    LET mag == IF t < 0 THEN -t ELSE t
        n == (mag * 20000 + TicksPerSec) \div (2 * TicksPerSec)
    IN  IF t < 0 THEN -n ELSE n

\* String(index): the decimal digits of index
RECURSIVE DecimalDigits(_)
DecimalDigits(n) ==
    IF n < 10 THEN <<n>> ELSE DecimalDigits(n \div 10) \o <<n % 10>>

\* .padStart(width, '0')
RECURSIVE PadStart(_, _)
PadStart(digits, width) ==
    IF Len(digits) >= width THEN digits ELSE PadStart(<<0>> \o digits, width)

\* part_${String(index).padStart(4, '0')}.${ext} (lines 162, 205, 212)
PartName(index, ext) == [digits |-> PadStart(DecimalDigits(index), 4), ext |-> ext]

\* lines 162, 205
SegName(index, ext) == PartName(index, IF IsAudioOnly(ext) THEN ext ELSE "mp4")

\* lines 164, 207
CmdVideo(ext) ==
    IF IsAudioOnly(ext) THEN <<"-vn">>
    ELSE <<"-c:v", VideoCodec(ext), "-preset", "ultrafast">>

\* the dialects (parameter platform, line 100)
Platforms == {"win", "unix"}

\* the body of the forEach of the unix branch (lines 159-167): the command line
UnixExtractLine(filename, seg, index, ext) ==
    [kind |-> "extract",
     input |-> InputFilename(filename, "unix"),
     ss |-> ToFixed4(seg.start),
     t |-> ToFixed4(seg.end - seg.start),
     video |-> CmdVideo(ext),
     audio |-> AudioCodec(ext),
     dir |-> SegmentDir("unix"),
     out |-> SegName(index, ext)]

\* the command line of the win branch with the end time passed as duration
WinExtractLineEndAsDuration(filename, seg, index, ext) ==
    [kind |-> "extract",
     input |-> filename,
     ss |-> ToFixed4(seg.start),
     t |-> ToFixed4(seg.end),
     video |-> CmdVideo(ext),
     audio |-> AudioCodec(ext),
     dir |-> SegmentDir("win"),
     out |-> SegName(index, ext)]

\* the body of the forEach of the win branch (lines 202-211): the command line
WinExtractLine(filename, seg, index, ext) ==
    [kind |-> "extract",
     input |-> filename,
     ss |-> ToFixed4(seg.start),
     t |-> ToFixed4(seg.end - seg.start),
     video |-> CmdVideo(ext),
     audio |-> AudioCodec(ext),
     dir |-> SegmentDir("win"),
     out |-> SegName(index, ext)]

\* the entry added to fileList: line 168
UnixFileListEntry(index, ext) == SegName(index, ext)

\* line 212
WinFileListEntry(index, ext) == PartName(index, "mp4")

\* the lines after the manifest of the unix branch (lines 171-191)
UnixConcatLines(filename, ext, bgMusicName) ==
    LET temp == <<"segments/temp_concat", ".", ext>>
        outputName == OutputName(filename, ext)
    IN  <<[kind |-> "echo", text |-> <<"Concatenating...">>]>>
        \o (IF bgMusicName # NoBgMusic
            THEN <<[kind |-> "concat", list |-> ConcatFile("unix"), out |-> temp],
                   [kind |-> "echo",
                    text |-> <<"Adding background music (Main 100%, BG 20%)...">>],
                   [kind |-> "mix", base |-> temp,
                    bg |-> BgMusicFilename(bgMusicName, "unix"),
                    filter |-> "amix=inputs=2:duration=first:weights=1 0.2",
                    mapVideo |-> ~IsAudioOnly(ext),
                    audio |-> AudioCodec(ext),
                    out |-> outputName],
                   [kind |-> "rm", target |-> temp]>>
            ELSE <<[kind |-> "concat", list |-> ConcatFile("unix"), out |-> outputName]>>)
        \o <<[kind |-> "echo", text |-> <<"Done! Saved to ">> \o outputName],
             [kind |-> "rmdir"]>>

\* the lines after the manifest of the win branch with the background track
\* ignored: the concatenate command always writes the final name
WinConcatLinesNoMix(filename, ext, bgMusicName) ==
    <<[kind |-> "echo", text |-> <<"Concatenating...">>],
      [kind |-> "concat", list |-> ConcatFile("win"), out |-> OutputName(filename, ext)],
      [kind |-> "echo", text |-> <<"Done! Saved to ">> \o OutputName(filename, ext)],
      [kind |-> "rmdir"],
      [kind |-> "pause"]>>

\* the lines after the manifest of the win branch (lines 221-238)
WinConcatLines(filename, ext, bgMusicName) ==
    LET temp == <<"segments\\temp_concat", ".", ext>>
        outputName == OutputName(filename, ext)
    IN  <<[kind |-> "echo", text |-> <<"Concatenating...">>]>>
        \o (IF bgMusicName # NoBgMusic
            THEN <<[kind |-> "concat", list |-> ConcatFile("win"), out |-> temp],
                   [kind |-> "echo",
                    text |-> <<"Adding background music (Main 100%%, BG 20%%)...">>],
                   [kind |-> "mix", base |-> temp,
                    bg |-> bgMusicName,
                    filter |-> "amix=inputs=2:duration=first:weights=1 0.2",
                    mapVideo |-> ~IsAudioOnly(ext),
                    audio |-> AudioCodec(ext),
                    out |-> outputName],
                   [kind |-> "del", target |-> temp]>>
            ELSE <<[kind |-> "concat", list |-> ConcatFile("win"), out |-> outputName]>>)
        \o <<[kind |-> "echo", text |-> <<"Done! Saved to ">> \o outputName],
             [kind |-> "rmdir"],
             [kind |-> "pause"]>>

\* the timelines handed to the generator: the alternating partitions of up to
\* MaxScriptSecs seconds
ScriptTimelines == {CellRuns(cells, 1, <<>>) : cells \in BoundedSeq(BOOLEAN, MaxScriptSecs)}

\* trim bounds of the generator: 0, a time off the 1/10000 s grid, and two
\* whole seconds, the later one the end of the longest timeline
ScriptTrimTimes == {0, TicksPerSec + 1, 2 * TicksPerSec, MaxScriptSecs * TicksPerSec}

ScrInit ==
    /\ gSegments \in ScriptTimelines
    /\ gFilename \in Filenames
    /\ gPlatform \in Platforms
    /\ gConfig \in [format : ExportFormats \cup {UnsupportedFormat},
                    trimStart : ScriptTrimTimes,
                    trimEnd : ScriptTrimTimes,
                    bgMusicName : BgMusicNames]
    /\ gActive = <<>>
    /\ gIndex = 0
    /\ fileList = <<>>
    /\ script = <<>>
    /\ gpc = "filter"

\* lines 109-122
GenFilter ==
    /\ gpc = "filter"
    /\ gActive' = ActiveSegments(gSegments, gConfig.trimStart, gConfig.trimEnd)
    /\ gpc' = "header"
    /\ UNCHANGED <<pvVars, detVars, expVars, appVars, gSegments, gFilename, gPlatform, gConfig,
                   gIndex, fileList, script>>

\* lines 151-157
GenUnixHeader ==
    /\ gpc = "header"
    /\ gPlatform = "unix"
    /\ script' = <<[kind |-> "shebang"],
                   [kind |-> "comment",
                    text |-> <<"# Process ">> \o gFilename \o <<" to ">>
                                \o OutputName(gFilename, gConfig.format)],
                   [kind |-> "mkdir"],
                   [kind |-> "echo", text |-> <<"Extracting valid segments...">>]>>
    /\ fileList' = <<>>
    /\ gpc' = "extract"
    /\ UNCHANGED <<pvVars, detVars, expVars, appVars, gSegments, gFilename, gPlatform, gConfig,
                   gActive, gIndex>>

\* one iteration of the forEach of lines 159-168
GenUnixExtract ==
    /\ gpc = "extract"
    /\ gPlatform = "unix"
    /\ gIndex < Len(gActive)
    /\ script' = Append(script, UnixExtractLine(gFilename, gActive[gIndex + 1], gIndex,
                                                gConfig.format))
    /\ fileList' = Append(fileList, UnixFileListEntry(gIndex, gConfig.format))
    /\ gIndex' = gIndex + 1
    /\ UNCHANGED <<pvVars, detVars, expVars, appVars, gSegments, gFilename, gPlatform, gConfig,
                   gActive, gpc>>

\* line 170: echo "${fileList}" > ${concatFile}
GenUnixManifest ==
    /\ gpc = "extract"
    /\ gPlatform = "unix"
    /\ gIndex = Len(gActive)
    /\ script' = Append(script, [kind |-> "manifest", entries |-> fileList,
                                 file |-> ConcatFile("unix")])
    /\ gpc' = "concat"
    /\ UNCHANGED <<pvVars, detVars, expVars, appVars, gSegments, gFilename, gPlatform, gConfig,
                   gActive, gIndex, fileList>>

\* lines 171-191, and the return of line 241
GenUnixConcat ==
    /\ gpc = "concat"
    /\ gPlatform = "unix"
    /\ script' = script \o UnixConcatLines(gFilename, gConfig.format, gConfig.bgMusicName)
    /\ gpc' = "done"
    /\ UNCHANGED <<pvVars, detVars, expVars, appVars, gSegments, gFilename, gPlatform, gConfig,
                   gActive, gIndex, fileList>>

\* lines 194-200
GenWinHeader ==
    /\ gpc = "header"
    /\ gPlatform = "win"
    /\ script' = <<[kind |-> "echo off"],
                   [kind |-> "comment",
                    text |-> <<"REM Process ">> \o gFilename \o <<" to ">>
                                \o OutputName(gFilename, gConfig.format)],
                   [kind |-> "mkdir"],
                   [kind |-> "echo", text |-> <<"Extracting valid segments...">>]>>
    /\ fileList' = <<>>
    /\ gpc' = "extract"
    /\ UNCHANGED <<pvVars, detVars, expVars, appVars, gSegments, gFilename, gPlatform, gConfig,
                   gActive, gIndex>>

\* one iteration of the forEach of lines 202-213
GenWinExtract ==
    /\ gpc = "extract"
    /\ gPlatform = "win"
    /\ gIndex < Len(gActive)
    /\ script' = Append(script, WinExtractLine(gFilename, gActive[gIndex + 1], gIndex,
                                               gConfig.format))
    /\ fileList' = Append(fileList, WinFileListEntry(gIndex, gConfig.format))
    /\ gIndex' = gIndex + 1
    /\ UNCHANGED <<pvVars, detVars, expVars, appVars, gSegments, gFilename, gPlatform, gConfig,
                   gActive, gpc>>

\* lines 215-219: one echo per line of fileList, redirected to concatFile
GenWinManifest ==
    /\ gpc = "extract"
    /\ gPlatform = "win"
    /\ gIndex = Len(gActive)
    /\ script' = Append(script, [kind |-> "manifest", entries |-> fileList,
                                 file |-> ConcatFile("win")])
    /\ gpc' = "concat"
    /\ UNCHANGED <<pvVars, detVars, expVars, appVars, gSegments, gFilename, gPlatform, gConfig,
                   gActive, gIndex, fileList>>

\* lines 221-238, and the return of line 241
GenWinConcat ==
    /\ gpc = "concat"
    /\ gPlatform = "win"
    /\ script' = script \o WinConcatLines(gFilename, gConfig.format, gConfig.bgMusicName)
    /\ gpc' = "done"
    /\ UNCHANGED <<pvVars, detVars, expVars, appVars, gSegments, gFilename, gPlatform, gConfig,
                   gActive, gIndex, fileList>>

ScrNext ==
    \/ GenFilter
    \/ GenUnixHeader
    \/ GenUnixExtract
    \/ GenUnixManifest
    \/ GenUnixConcat
    \/ GenWinHeader
    \/ GenWinExtract
    \/ GenWinManifest
    \/ GenWinConcat

\* no call of generateFfmpegScript under way
ScrIdle ==
    /\ gSegments = <<>>
    /\ gFilename = <<>>
    /\ gPlatform = "unix"
    /\ gConfig = [format |-> "mp4", trimStart |-> 0, trimEnd |-> 0, bgMusicName |-> NoBgMusic]
    /\ gActive = <<>>
    /\ gIndex = 0
    /\ fileList = <<>>
    /\ script = <<>>
    /\ gpc = "idle"

----------------------------------------------------------------------------
(* The App component, part_001 *)

\* asynchronous operations (decodes, AI calls) started in one run of the model
MaxRuns == 3

\* scripts downloaded in one run of the model
MaxDownloads == 1

NoFile == "null"
NoAnalysis == [isNull |-> TRUE]

\* the media files the user can pick
Files == {"a.mp4", "b.mp3"}

\* selectedFile.type.includes('audio')
IsAudioFile(f) == f = "b.mp3"

Repeat(x, n) == [k \in 1..n |-> x]

\* what extractAudioFromVideo decodes from each file: channel 0 and the sample rate
FileSamples(f) ==
    IF f = "a.mp4"
    THEN <<50>> \o Repeat(5, 5) \o <<50>> \o Repeat(5, 13) \o Repeat(0, 4)
    ELSE Repeat(0, 6) \o <<50, 50, 5, 5, 5>>

FileRate(f) == IF f = "a.mp4" THEN 32 ELSE 48

\* audioBuffer.duration
FileDuration(f) == TimeOf(Len(FileSamples(f)), FileRate(f))

\* positions of the two sliders that the model moves between
SliderThresholds == {-60, -35}
SliderMinSilences == {1, 5}

\* finalDuration once the effect of part_001:114-118 has run after a render in
\* which segments or the trim range changed; `set` is what the handler itself set
FinalDurationEffect(segs, cfg, set) ==
    IF Len(segs) > 0
    THEN CalculateFinalDuration(segs, cfg.trimStart, cfg.trimEnd)
    ELSE set

\* exportConfig once the effect of part_001:48-52 has run after a render in
\* which originalDuration changed from `before` to `after`
TrimEndEffect(cfg, before, after) ==
    IF after # before /\ after > 0 /\ cfg.trimEnd = 0
    THEN [cfg EXCEPT !.trimEnd = after]
    ELSE cfg

\* a pending promise together with what the awaiting closure captured.  The
\* then-callback of a slider handler reads e.target.value when it runs
\* (part_001:105, 383): e.target is the slider element, whose value is the
\* state it is controlled by (lines 357, 377) as long as the workspace is
\* mounted (live), and the value it had when it was unmounted afterwards.
Run(id, kind, f, thr, minSil) ==
    [id |-> id, kind |-> kind, file |-> f, thresholdDb |-> thr, minSilence |-> minSil,
     live |-> kind \in {"threshold", "minSilence"}]

\* the run once the workspace is unmounted (part_001:235): the slider element
\* of the event keeps the value it shows
Detached(r) ==
    IF ~r.live THEN r
    ELSE IF r.kind = "threshold"
         THEN [r EXCEPT !.live = FALSE, !.thresholdDb = thresholdDb]
         ELSE [r EXCEPT !.live = FALSE, !.minSilence = minSilenceDuration]

\* Number(e.target.value) in the then-callback of handleThresholdChange
TargetThreshold(r) ==
    IF r.kind = "threshold" /\ r.live THEN thresholdDb ELSE r.thresholdDb

\* Number(e.target.value) in the then-callback of the min-silence onChange
TargetMinSilence(r) ==
    IF r.kind = "minSilence" /\ r.live THEN minSilenceDuration ELSE r.minSilence

AppInit ==
    /\ file = NoFile
    /\ segments = <<>>
    /\ state = "IDLE"
    /\ thresholdDb = -35
    /\ minSilenceDuration = 5
    /\ aiAnalysis = NoAnalysis
    /\ exportConfig = [format |-> "mp4", trimStart |-> 0, trimEnd |-> 0, bgMusicFile |-> NoFile]
    /\ originalDuration = 0
    /\ finalDuration = 0
    /\ pending = {}
    /\ issued = 0
    /\ latestDetect = 0
    /\ dragMode = "none"
    /\ download = [count |-> 0, platform |-> "none", active |-> <<>>,
                   format |-> "none", bgMusicName |-> NoFile]

\* processFile up to its await (part_001:54-69).  It is reachable from the
\* FileUpload of line 220 (shown when there is no file and no analysis, disabled
\* while ANALYZING_AUDIO) and from the "Select File" input of line 256.
ProcessFile(f) ==
    /\ file = NoFile
    /\ aiAnalysis # NoAnalysis \/ state # "ANALYZING_AUDIO"
    /\ issued < MaxRuns
    /\ file' = f
    /\ state' = "ANALYZING_AUDIO"
    /\ exportConfig' = [format |-> IF IsAudioFile(f) THEN "mp3" ELSE "mp4",
                        trimStart |-> 0, trimEnd |-> 0, bgMusicFile |-> NoFile]
    /\ finalDuration' = FinalDurationEffect(segments, exportConfig', finalDuration)
    /\ issued' = issued + 1
    /\ latestDetect' = issued + 1
    /\ pending' = pending \cup {Run(issued + 1, "processFile", f, thresholdDb, minSilenceDuration)}
    /\ UNCHANGED <<pvVars, detVars, expVars, scrVars, dragMode, segments, thresholdDb, minSilenceDuration, aiAnalysis, originalDuration, download>>

\* the decode awaited by processFile resolves (part_001:69-79)
ProcessFileResolved(r) ==
    /\ r \in pending
    /\ r.kind = "processFile"
    /\ LET duration == FileDuration(r.file)
           newSegments == DetectSilence(FileSamples(r.file), FileRate(r.file),
                                        r.thresholdDb, r.minSilence)
       IN  /\ originalDuration' = duration
           /\ exportConfig' = TrimEndEffect([exportConfig EXCEPT !.trimEnd = duration],
                                            originalDuration, duration)
           /\ segments' = newSegments
           /\ finalDuration' = FinalDurationEffect(segments', exportConfig',
                                   CalculateFinalDuration(segments', 0, duration))
    /\ state' = "READY"
    /\ pending' = pending \ {r}
    /\ UNCHANGED <<pvVars, detVars, expVars, scrVars, dragMode, file, thresholdDb, minSilenceDuration, aiAnalysis, issued, latestDetect, download>>

\* the decode awaited by processFile rejects, or detectSilence throws: the catch
\* of part_001:80-83
ProcessFileFailed(r) ==
    /\ r \in pending
    /\ r.kind = "processFile"
    /\ state' = "ERROR"
    /\ pending' = pending \ {r}
    /\ UNCHANGED <<pvVars, detVars, expVars, scrVars, dragMode, file, segments, thresholdDb, minSilenceDuration, aiAnalysis, exportConfig,
                   originalDuration, finalDuration, issued, latestDetect, download>>

\* handleThresholdChange (part_001:100-111), the slider moved to v.  The
\* slider is rendered with the workspace (line 235); without a file the panel
\* takes no pointer events (line 340) but the slider still takes the keyboard,
\* and line 101 runs before any test of file.
HandleThresholdChange(v) ==
    /\ file # NoFile \/ aiAnalysis # NoAnalysis
    /\ v # thresholdDb
    /\ thresholdDb' = v
    /\ IF file # NoFile /\ state = "READY" /\ issued < MaxRuns
       THEN /\ state' = "ANALYZING_AUDIO"
            /\ issued' = issued + 1
            /\ latestDetect' = issued + 1
            /\ pending' = pending \cup {Run(issued + 1, "threshold", file, v, minSilenceDuration)}
       ELSE /\ ~(file # NoFile /\ state = "READY")
            /\ UNCHANGED <<state, issued, latestDetect, pending>>
    /\ UNCHANGED <<pvVars, detVars, expVars, scrVars, dragMode, file, segments, minSilenceDuration, aiAnalysis, exportConfig,
                   originalDuration, finalDuration, download>>

\* the onChange of the min-silence slider (part_001:378-389), moved to v;
\* without a file it does nothing (line 379)
HandleMinSilenceChange(v) ==
    /\ file # NoFile
    /\ v # minSilenceDuration
    /\ issued < MaxRuns
    /\ minSilenceDuration' = v
    /\ state' = "ANALYZING_AUDIO"
    /\ issued' = issued + 1
    /\ latestDetect' = issued + 1
    /\ pending' = pending \cup {Run(issued + 1, "minSilence", file, thresholdDb, v)}
    /\ UNCHANGED <<pvVars, detVars, expVars, scrVars, dragMode, file, segments, thresholdDb, aiAnalysis, exportConfig,
                   originalDuration, finalDuration, download>>

\* the decode awaited by a slider handler resolves: the then-callback of
\* part_001:104-109 and 382-387.  The setting of the slider that was moved
\* is read from the event target now, the other one from the closure.
RedetectResolved(r) ==
    /\ r \in pending
    /\ r.kind \in {"threshold", "minSilence"}
    /\ LET newSegments == DetectSilence(FileSamples(r.file), FileRate(r.file),
                                        TargetThreshold(r), TargetMinSilence(r))
       IN  /\ segments' = newSegments
           /\ finalDuration' = FinalDurationEffect(segments', exportConfig,
                                   CalculateFinalDuration(segments', exportConfig.trimStart,
                                                          exportConfig.trimEnd))
    /\ state' = "READY"
    /\ pending' = pending \ {r}
    /\ UNCHANGED <<pvVars, detVars, expVars, scrVars, dragMode, file, thresholdDb, minSilenceDuration, aiAnalysis, exportConfig,
                   originalDuration, issued, latestDetect, download>>

\* the decode awaited by a slider handler rejects, or detectSilence throws in
\* the then-callback: the promise chain has no catch (part_001:104-109, 382-387)
RedetectFailed(r) ==
    /\ r \in pending
    /\ r.kind \in {"threshold", "minSilence"}
    /\ pending' = pending \ {r}
    /\ UNCHANGED <<pvVars, detVars, expVars, scrVars, dragMode, file, segments, state, thresholdDb, minSilenceDuration, aiAnalysis,
                   exportConfig, originalDuration, finalDuration, issued, latestDetect, download>>

\* handleAnalyzeAi up to its await (part_001:120-123); the button is shown
\* while there is no analysis and disabled while ANALYZING_AI (lines 396-400)
HandleAnalyzeAi ==
    /\ file # NoFile
    /\ aiAnalysis = NoAnalysis
    /\ state # "ANALYZING_AI"
    /\ issued < MaxRuns
    /\ state' = "ANALYZING_AI"
    /\ issued' = issued + 1
    /\ pending' = pending \cup {Run(issued + 1, "analyzeAi", file, thresholdDb, minSilenceDuration)}
    /\ UNCHANGED <<pvVars, detVars, expVars, scrVars, dragMode, file, segments, thresholdDb, minSilenceDuration, aiAnalysis, exportConfig,
                   originalDuration, finalDuration, latestDetect, download>>

\* handleLinkSubmit up to its await (part_001:148-150); the form is part of the
\* FileUpload of line 220
HandleLinkSubmit ==
    /\ file = NoFile
    /\ aiAnalysis = NoAnalysis
    /\ state # "ANALYZING_AUDIO"
    /\ issued < MaxRuns
    /\ state' = "ANALYZING_AI"
    /\ issued' = issued + 1
    /\ pending' = pending \cup {Run(issued + 1, "link", file, thresholdDb, minSilenceDuration)}
    /\ UNCHANGED <<pvVars, detVars, expVars, scrVars, dragMode, file, segments, thresholdDb, minSilenceDuration, aiAnalysis, exportConfig,
                   originalDuration, finalDuration, latestDetect, download>>

\* how the AI call of analyzeContent ends: the client is built and answers
\* with the JSON asked for, getGeminiClient throws for want of an API key
\* (part_002:6-8), generateContent rejects (line 28), or JSON.parse throws on
\* the response text (line 46)
AiOutcomes == {"ok", "no_key", "network_error", "unparsable"}

\* a parsed answer of the service (part_002:46-47)
AiAnswer ==
    [title |-> "answer", summary |-> "answer", tags |-> <<"a", "b", "c">>, viralScore |-> 80]

\* the fallback of the catch block (part_002:52-57)
AiPlaceholder ==
    [title |-> "Content Analysis Unavailable",
     summary |-> "Could not connect to Gemini AI. Ensure API Key is configured.",
     tags |-> <<"error", "offline">>,
     viralScore |-> 0]

\* the promise of an async function whose body threw
Rejected == [rejected |-> TRUE]

\* analyzeContent without its try / catch: a failure rejects the promise
AnalyzeContentNoCatch(outcome) ==
    IF outcome = "ok" THEN AiAnswer ELSE Rejected

\* analyzeContent (part_002:13-59): what its promise settles with
AnalyzeContent(outcome) ==
    IF outcome = "ok" THEN AiAnswer ELSE AiPlaceholder

\* the promise of analyzeContent settles; the rest of handleAnalyzeAi
\* (part_001:123-125), which a rejected await skips
AnalyzeAiDone(r, outcome) ==
    /\ r \in pending
    /\ r.kind = "analyzeAi"
    /\ IF AnalyzeContent(outcome) = Rejected
       THEN UNCHANGED <<aiAnalysis, state>>
       ELSE /\ aiAnalysis' = AnalyzeContent(outcome)
            /\ state' = "READY"
    /\ pending' = pending \ {r}
    /\ UNCHANGED <<pvVars, detVars, expVars, scrVars, dragMode, file, segments, thresholdDb, minSilenceDuration, exportConfig,
                   originalDuration, finalDuration, issued, latestDetect, download>>

\* the promise of analyzeContent settles; the rest of handleLinkSubmit
\* (part_001:150-157), whose closure holds the file of the render that
\* submitted the link, and which a rejected await skips
LinkSubmitDone(r, outcome) ==
    /\ r \in pending
    /\ r.kind = "link"
    /\ IF AnalyzeContent(outcome) = Rejected
       THEN UNCHANGED <<aiAnalysis, segments, finalDuration, state>>
       ELSE /\ aiAnalysis' = AnalyzeContent(outcome)
            /\ segments' = IF r.file = NoFile THEN <<>> ELSE segments
            /\ finalDuration' = FinalDurationEffect(segments', exportConfig, finalDuration)
            /\ state' = "READY"
    /\ pending' = pending \ {r}
    /\ UNCHANGED <<pvVars, detVars, expVars, scrVars, dragMode, file, thresholdDb, minSilenceDuration, exportConfig,
                   originalDuration, issued, latestDetect, download>>

\* downloadScript that stores the clipped list it exports as the timeline
DownloadScriptStoresActive(platform) ==
    /\ file # NoFile
    /\ download.count < MaxDownloads
    /\ download' = [count |-> download.count + 1,
                    platform |-> platform,
                    active |-> ActiveSegments(segments, exportConfig.trimStart,
                                              exportConfig.trimEnd),
                    format |-> exportConfig.format,
                    bgMusicName |-> exportConfig.bgMusicFile]
    /\ segments' = ActiveSegments(segments, exportConfig.trimStart, exportConfig.trimEnd)
    /\ UNCHANGED <<pvVars, detVars, expVars, scrVars, dragMode, file, state, thresholdDb, minSilenceDuration, aiAnalysis,
                   exportConfig, originalDuration, finalDuration, pending, issued, latestDetect>>

\* downloadScript (part_001:128-146) from one of the export buttons, which are
\* rendered whenever a file is set (part_001:424, 462-479)
DownloadScript(platform) ==
    /\ file # NoFile
    /\ download.count < MaxDownloads
    /\ download' = [count |-> download.count + 1,
                    platform |-> platform,
                    active |-> ActiveSegments(segments, exportConfig.trimStart,
                                              exportConfig.trimEnd),
                    format |-> exportConfig.format,
                    bgMusicName |-> exportConfig.bgMusicFile]
    /\ UNCHANGED <<pvVars, detVars, expVars, scrVars, dragMode, file, segments, state, thresholdDb, minSilenceDuration, aiAnalysis,
                   exportConfig, originalDuration, finalDuration, pending, issued, latestDetect>>

\* the Reset Project button (part_001:276-281), rendered whenever a file is set
\* Without file and analysis the workspace is unmounted (line 235): the
\* sliders leave the document and the Timeline loses its dragMode.
ResetProject ==
    /\ file # NoFile
    /\ file' = NoFile
    /\ aiAnalysis' = NoAnalysis
    /\ segments' = <<>>
    /\ pending' = {Detached(r) : r \in pending}
    /\ dragMode' = "none"
    /\ UNCHANGED <<pvVars, detVars, expVars, scrVars, state, thresholdDb, minSilenceDuration, exportConfig, originalDuration,
                   finalDuration, issued, latestDetect, download>>

\* half a second, the shortest range the handles leave (part_003:173, 176)
MinTrimRange == TicksPerSec \div 2

\* values typed in the Start and End inputs: 0 s, 0.125 s, 0.5 s, 2 s
TrimInputs == {0, TicksPerSec \div 8, TicksPerSec \div 2, 2 * TicksPerSec}

\* times under the pointer during a drag: getTime(x, width) with x clamped to
\* the canvas (part_003:29, 170-171)
DragTimes(duration) == {0, duration \div 2, duration}

\* handleTrimChange (VideoPreview.tsx:158-170) through onUpdateConfig
\* (part_001:290), then the effect of part_001:114-118
TrimChange(start, end) ==
    /\ exportConfig' = [exportConfig EXCEPT !.trimStart = start, !.trimEnd = end]
    /\ finalDuration' = FinalDurationEffect(segments, exportConfig', finalDuration)
    /\ UNCHANGED <<pvVars, detVars, expVars, scrVars, dragMode, file, segments, state, thresholdDb, minSilenceDuration,
                   aiAnalysis, originalDuration, pending, issued, latestDetect, download>>

\* the Start input (VideoPreview.tsx:283-291), rendered whenever a file is set
HandleTrimStartInput(v) ==
    /\ file # NoFile
    /\ TrimChange(v, exportConfig.trimEnd)

\* the End input (VideoPreview.tsx:295-303)
HandleTrimEndInput(v) ==
    /\ file # NoFile
    /\ TrimChange(exportConfig.trimStart, v)

\* handleMouseDown of the timeline (part_003:143-164), rendered whenever a
\* file is set (part_001:269) with duration = originalDuration (line 291).
\* The press takes the start handle where it is drawn on the canvas, else the
\* end handle where that one is drawn, else it seeks.
HandleMouseDown(mode) ==
    /\ file # NoFile
    /\ originalDuration # 0
    /\ \/ /\ mode = "start"
          /\ 0 <= exportConfig.trimStart /\ exportConfig.trimStart <= originalDuration
       \/ /\ mode = "end"
          /\ 0 <= exportConfig.trimEnd /\ exportConfig.trimEnd <= originalDuration
          /\ exportConfig.trimEnd # exportConfig.trimStart
       \/ mode = "seek"
    /\ dragMode' = mode
    /\ UNCHANGED <<pvVars, detVars, expVars, scrVars, file, segments, state, thresholdDb,
                   minSilenceDuration, aiAnalysis, exportConfig, originalDuration,
                   finalDuration, pending, issued, latestDetect, download>>

\* handleMouseMove (part_003:166-182), the window listener of lines 188-197
\* while a drag is on, with the pointer over newTime.  It reads the trim range
\* and the duration of the latest render.  A seek moves the playhead only.
HandleMouseMove(newTime) ==
    /\ dragMode \in {"start", "end"}
    /\ IF dragMode = "start"
       THEN TrimChange(Min(Max(0, newTime), exportConfig.trimEnd - MinTrimRange),
                       exportConfig.trimEnd)
       ELSE TrimChange(exportConfig.trimStart,
                       Max(Min(originalDuration, newTime),
                           exportConfig.trimStart + MinTrimRange))

\* handleMouseUp (part_003:184-186)
HandleMouseUp ==
    /\ dragMode # "none"
    /\ dragMode' = "none"
    /\ UNCHANGED <<pvVars, detVars, expVars, scrVars, file, segments, state, thresholdDb,
                   minSilenceDuration, aiAnalysis, exportConfig, originalDuration,
                   finalDuration, pending, issued, latestDetect, download>>

DragModes == {"start", "end", "seek"}

\* setExportConfig of anything but the trim range: the effect of
\* part_001:114-118 does not run
UpdateConfig(cfg) ==
    /\ file # NoFile
    /\ cfg # exportConfig
    /\ exportConfig' = cfg
    /\ UNCHANGED <<pvVars, detVars, expVars, scrVars, dragMode, file, segments, state,
                   thresholdDb, minSilenceDuration, aiAnalysis, originalDuration,
                   finalDuration, pending, issued, latestDetect, download>>

\* the Output Format buttons (part_001:429-454), all six shown for any file
HandleFormatClick(fmt) ==
    UpdateConfig([exportConfig EXCEPT !.format = fmt])

\* background tracks the user picks
MusicFiles == {"music.mp3"}

\* the file input of the Background Audio box (VideoPreview.tsx:326-337),
\* shown while no track is set
HandleBgMusicPick(m) ==
    /\ exportConfig.bgMusicFile = NoFile
    /\ UpdateConfig([exportConfig EXCEPT !.bgMusicFile = m])

\* its Remove button (VideoPreview.tsx:319-324), shown while a track is set
HandleBgMusicRemove ==
    /\ exportConfig.bgMusicFile # NoFile
    /\ UpdateConfig([exportConfig EXCEPT !.bgMusicFile = NoFile])

AppNext ==
    \/ \E f \in Files : ProcessFile(f)
    \/ \E r \in pending : ProcessFileResolved(r)
    \/ \E r \in pending : ProcessFileFailed(r)
    \/ \E v \in SliderThresholds : HandleThresholdChange(v)
    \/ \E v \in SliderMinSilences : HandleMinSilenceChange(v)
    \/ \E r \in pending : RedetectResolved(r)
    \/ \E r \in pending : RedetectFailed(r)
    \/ HandleAnalyzeAi
    \/ HandleLinkSubmit
    \/ \E r \in pending, outcome \in AiOutcomes : AnalyzeAiDone(r, outcome)
    \/ \E r \in pending, outcome \in AiOutcomes : LinkSubmitDone(r, outcome)
    \/ \E p \in Platforms : DownloadScript(p)
    \/ ResetProject

\* loading a source and editing its trim range in the preview
TrimNext ==
    \/ \E f \in Files : ProcessFile(f)
    \/ \E r \in pending : ProcessFileResolved(r)
    \/ \E r \in pending : ProcessFileFailed(r)
    \/ ResetProject
    \/ \E v \in TrimInputs : HandleTrimStartInput(v)
    \/ \E v \in TrimInputs : HandleTrimEndInput(v)
    \/ \E mode \in DragModes : HandleMouseDown(mode)
    \/ \E t \in DragTimes(originalDuration) : HandleMouseMove(t)
    \/ HandleMouseUp

----------------------------------------------------------------------------
(* calculateVirtualTime of the preview, VideoPreview.tsx:75-97 *)

\* longest timeline handed to the preview, in whole seconds
MaxPreviewSecs == 5

\* the position the loop stops at with the skip of line 84 turned into a stop
RECURSIVE VirtualFromBreakBeforeTrim(_, _, _, _, _, _)
VirtualFromBreakBeforeTrim(segs, k, realTime, trimStart, trimEnd, virtual) ==
    IF k > Len(segs) THEN virtual
    ELSE LET seg == segs[k]
             effectiveStart == Max(seg.start, trimStart)
             effectiveEnd == Min(Min(seg.end, realTime), trimEnd)
         IN  IF seg.end < trimStart THEN virtual
             ELSE IF seg.start > realTime THEN virtual
             ELSE IF seg.start > trimEnd THEN virtual
             ELSE VirtualFromBreakBeforeTrim(segs, k + 1, realTime, trimStart, trimEnd,
                      IF ~seg.isSilent /\ effectiveEnd > effectiveStart
                      THEN virtual + (effectiveEnd - effectiveStart)
                      ELSE virtual)

\* the loop of lines 83-95 from the k-th segment on, `virtual` so far
RECURSIVE VirtualFrom(_, _, _, _, _, _)
VirtualFrom(segs, k, realTime, trimStart, trimEnd, virtual) ==
    IF k > Len(segs) THEN virtual
    ELSE LET seg == segs[k]
             effectiveStart == Max(seg.start, trimStart)
             effectiveEnd == Min(Min(seg.end, realTime), trimEnd)
         IN  IF seg.end < trimStart
             THEN VirtualFrom(segs, k + 1, realTime, trimStart, trimEnd, virtual)
             ELSE IF seg.start > realTime THEN virtual
             ELSE IF seg.start > trimEnd THEN virtual
             ELSE VirtualFrom(segs, k + 1, realTime, trimStart, trimEnd,
                      IF ~seg.isSilent /\ effectiveEnd > effectiveStart
                      THEN virtual + (effectiveEnd - effectiveStart)
                      ELSE virtual)

\* calculateVirtualTime (lines 75-97)
CalculateVirtualTime(segs, realTime, trimStart, trimEnd) ==
    IF realTime < trimStart THEN 0
    ELSE VirtualFrom(segs, 1, realTime, trimStart, trimEnd, 0)

\* the timelines handed to the preview: the empty one and the alternating
\* partitions of up to MaxPreviewSecs seconds
PreviewTimelines == {CellRuns(cells, 1, <<>>) : cells \in BoundedSeq(BOOLEAN, MaxPreviewSecs)}

\* playback positions and trim bounds of the preview: every half second
PreviewTimes == {k * (TicksPerSec \div 2) : k \in 0..(2 * MaxPreviewSecs)}

PvInit ==
    /\ pSegments \in PreviewTimelines
    /\ pTrimStart \in PreviewTimes
    /\ pTrimEnd \in PreviewTimes
    /\ pRealTime \in PreviewTimes
    /\ pVirtual = 0
    /\ ppc = "in"

\* the call calculateVirtualTime(time) of handleTimeUpdate (line 133) and of
\* handleSeek (line 153)
VirtualTime ==
    /\ ppc = "in"
    /\ pVirtual' = CalculateVirtualTime(pSegments, pRealTime, pTrimStart, pTrimEnd)
    /\ ppc' = "done"
    /\ UNCHANGED <<detVars, expVars, scrVars, appVars, pSegments, pTrimStart, pTrimEnd, pRealTime>>

PvNext == VirtualTime

\* no call of calculateVirtualTime under way
PvIdle ==
    /\ pSegments = <<>>
    /\ pTrimStart = 0
    /\ pTrimEnd = 0
    /\ pRealTime = 0
    /\ pVirtual = 0
    /\ ppc = "idle"

----------------------------------------------------------------------------
(* Specifications *)

\* the App component under every order of loads, detection settings, AI
\* analyses, exports and resets, and of the completions of their promises
Init == AppInit /\ DetIdle /\ ExpIdle /\ ScrIdle /\ PvIdle
Spec == Init /\ [][AppNext]_vars

\* the App component under every order of loads, resets and trim edits
InitTrim == AppInit /\ DetIdle /\ ExpIdle /\ ScrIdle /\ PvIdle
SpecTrim == InitTrim /\ [][TrimNext]_vars

\* loads and resets with AI analyses of the file and of links
AiNext ==
    \/ \E f \in Files : ProcessFile(f)
    \/ \E r \in pending : ProcessFileResolved(r)
    \/ \E r \in pending : ProcessFileFailed(r)
    \/ ResetProject
    \/ HandleAnalyzeAi
    \/ HandleLinkSubmit
    \/ \E r \in pending, outcome \in AiOutcomes : AnalyzeAiDone(r, outcome)
    \/ \E r \in pending, outcome \in AiOutcomes : LinkSubmitDone(r, outcome)

InitAi == AppInit /\ DetIdle /\ ExpIdle /\ ScrIdle /\ PvIdle
SpecAi == InitAi /\ [][AiNext]_vars

\* one source loaded, its export configuration edited in the Start and End
\* inputs, the format buttons and the background-audio box, and the script
\* exported
PlanNext ==
    \/ \E f \in Files : ProcessFile(f)
    \/ \E r \in pending : ProcessFileResolved(r)
    \/ \E r \in pending : ProcessFileFailed(r)
    \/ \E v \in TrimInputs : HandleTrimStartInput(v)
    \/ \E v \in TrimInputs : HandleTrimEndInput(v)
    \/ \E fmt \in ExportFormats : HandleFormatClick(fmt)
    \/ \E m \in MusicFiles : HandleBgMusicPick(m)
    \/ HandleBgMusicRemove
    \/ \E p \in Platforms : DownloadScript(p)

InitPlan == AppInit /\ DetIdle /\ ExpIdle /\ ScrIdle /\ PvIdle
SpecPlan == InitPlan /\ [][PlanNext]_vars

\* one call of detectSilence on every enumerated buffer and configuration
InitDetect == DetInit /\ ExpIdle /\ ScrIdle /\ AppInit /\ PvIdle
SpecDetect == InitDetect /\ [][DetNext]_vars

\* the same call, run by an engine that keeps executing it: a step of the call
\* that can change the state is eventually taken
SpecDetectLive == InitDetect /\ [][DetNext]_vars /\ WF_vars(DetNext)

\* the trim filter on every enumerated timeline and trim range
InitExport == ExpInit /\ DetIdle /\ ScrIdle /\ AppInit /\ PvIdle
SpecExport == InitExport /\ [][ExpNext]_vars

\* one call of generateFfmpegScript on every enumerated timeline, name, dialect
\* and configuration
InitScript == ScrInit /\ DetIdle /\ ExpIdle /\ AppInit /\ PvIdle

\* calculateVirtualTime on every timeline, trim range and playback position
InitPreview == PvInit /\ DetIdle /\ ExpIdle /\ ScrIdle /\ AppInit
SpecPreview == InitPreview /\ [][PvNext]_vars
SpecScript == InitScript /\ [][ScrNext]_vars

----------------------------------------------------------------------------
(* Properties of detectSilence *)

TotalDuration == TimeOf(Len(rawData), sampleRate)

\* segs covers [0, total) without gap or overlap, in ascending order
IsPartition(segs, total) ==
    /\ Len(segs) > 0
    /\ segs[1].start = 0
    /\ \A k \in 1..Len(segs) : segs[k].start < segs[k].end
    /\ \A k \in 1..(Len(segs) - 1) : segs[k].end = segs[k + 1].start
    /\ segs[Len(segs)].end = total

\* C1: for every non-empty buffer, the raw run list (before the gating/merge
\* pass) and the returned timeline both partition [0, sampleCount/sampleRate):
\* first start 0, each end equal to the next start, last end the total duration.
C1_TimelinePartitions ==
    Len(rawData) > 0 =>
        /\ dpc = "raw" => IsPartition(loop.segments, TotalDuration)
        /\ dpc = "done" => IsPartition(mergedSegments, TotalDuration)

\* the raw run list of the call (the local `segments` at line 63), from the
\* inputs: the merge loop overwrites the local
RawRuns == RawSegments(rawData, sampleRate, dThresholdDb)

\* a returned timeline of several segments, from a buffer whose last window
\* is partial
C1_Witness ==
    /\ dpc = "done"
    /\ WindowSize(sampleRate) > 0
    /\ Len(rawData) % WindowSize(sampleRate) # 0
    /\ Len(RawRuns) >= 2
    /\ Len(mergedSegments) >= 2

\* C2: in the returned timeline no two adjacent segments have the same isSilent.
C2_AdjacentAlternate ==
    dpc = "done" =>
        \A k \in 1..(Len(mergedSegments) - 1) :
            mergedSegments[k].isSilent # mergedSegments[k + 1].isSilent

\* a returned timeline of at least three segments where a short raw silence
\* was reclassified and merged into its neighbours
C2_Witness ==
    /\ dpc = "done"
    /\ Len(mergedSegments) >= 3
    /\ \E k \in 1..Len(RawRuns) : IsShortSilence(RawRuns[k], dMinSilence)

\* C3: every silent segment of the returned timeline lasts at least
\* minSilenceDuration.
C3_SilentAtLeastMin ==
    dpc = "done" =>
        \A k \in 1..Len(mergedSegments) :
            mergedSegments[k].isSilent =>
                (mergedSegments[k].end - mergedSegments[k].start) * 10
                    >= dMinSilence * TicksPerSec

\* a returned timeline that keeps a long silence while a shorter raw silence
\* of the same buffer was gated
C3_Witness ==
    /\ dpc = "done"
    /\ \E k \in 1..Len(mergedSegments) : mergedSegments[k].isSilent
    /\ \E k \in 1..Len(RawRuns) : IsShortSilence(RawRuns[k], dMinSilence)

----------------------------------------------------------------------------
(* Further properties of detectSilence *)

\* every analysis window of the buffer is below the threshold
AllWindowsSilent(data, rate, thrDb) ==
    \A i \in 0..(Len(data) - 1) :
        i % WindowSize(rate) = 0 =>
            IsSilentFrame(data, i, Min(i + WindowSize(rate), Len(data)), thrDb)

\* C21: when every analysis window of a non-empty buffer is below the
\* threshold, the returned timeline is the single silent segment from 0 to the
\* total duration, and the active list is empty under every trim range.
C21_AllSilentGivesOneSilentSegment ==
    (/\ dpc = "done"
     /\ Len(rawData) > 0
     /\ WindowSize(sampleRate) > 0
     /\ AllWindowsSilent(rawData, sampleRate, dThresholdDb)) =>
        /\ mergedSegments = <<Segment(0, TotalDuration, TRUE)>>
        /\ \A ts \in {0, TotalDuration \div 2, TotalDuration} :
              \A te \in {0, TotalDuration \div 2, TotalDuration} :
                  ActiveSegments(mergedSegments, ts, te) = <<>>

\* the segment of segs that covers [s, e)
Covering(segs, s, e) ==
    {k \in 1..Len(segs) : segs[k].start <= s /\ e <= segs[k].end}

\* C22: the gating pass is a reclassification only: every raw silent run
\* shorter than minSilenceDuration lies inside an active segment of the
\* returned timeline, every raw silent run of at least minSilenceDuration is a
\* silent segment of the returned timeline with exactly its raw start and end,
\* and every raw active run stays active; the pass keeps the covered range and
\* adds no boundary.
C22_GatingOnlyReclassifies ==
    (dpc = "done" /\ Len(rawData) > 0) =>
        LET raw == RawRuns
            out == mergedSegments
        IN  /\ out[1].start = raw[1].start
            /\ out[Len(out)].end = raw[Len(raw)].end
            /\ \A k \in 1..Len(out) :
                  \E j \in 1..Len(raw) : out[k].end = raw[j].end
            /\ \A j \in 1..Len(raw) :
                  /\ (raw[j].isSilent /\ ~IsShortSilence(raw[j], dMinSilence)) =>
                        \E k \in 1..Len(out) : out[k] = raw[j]
                  /\ \E k \in Covering(out, raw[j].start, raw[j].end) :
                        out[k].isSilent =
                            (raw[j].isSilent /\ ~IsShortSilence(raw[j], dMinSilence))

\* a call whose raw run list holds, between active runs, a silence that
\* survives gating and, after it, a short silence that the pass merges away
C22_Witness ==
    /\ dpc = "done"
    /\ Len(RawRuns) >= 4
    /\ Len(mergedSegments) = 3
    /\ mergedSegments[2].isSilent
    /\ mergedSegments[2] = RawRuns[2]
    /\ IsShortSilence(RawRuns[4], dMinSilence)
    /\ mergedSegments[3].end = TotalDuration

\* Math.round(sampleRate * 0.05)
RoundedWindowSize(rate) == (rate * 5 + 50) \div 100

\* C27: detectSilence analyses the buffer in windows of
\* round(sampleRate * 0.05) samples, so every boundary between two raw runs
\* lies at k * round(sampleRate * 0.05) / sampleRate seconds for an integer
\* k >= 1.
C27_BoundariesOnRoundedWindows ==
    dpc = "raw" =>
        \A j \in 1..(Len(loop.segments) - 1) :
            \E k \in 1..MaxSamples :
                loop.segments[j].end = TimeOf(k * RoundedWindowSize(sampleRate), sampleRate)

\* C28: detectSilence terminates for every non-empty buffer and every positive
\* sample rate, also when the computed window size is 0 samples: the call
\* reaches its return.
C28_DetectTerminates == (Len(rawData) > 0) => <>(dpc = "done")

\* the variant of the window loop: an iteration that is about to run moves the
\* loop index forward
WindowLoopAdvances ==
    (dpc = "loop" /\ loop.i < Len(rawData)) =>
        WindowStep(rawData, sampleRate, dThresholdDb, loop).i > loop.i

----------------------------------------------------------------------------
(* Properties of the App component *)

\* a detection run resolves and commits its timeline
Commits(r) == ProcessFileResolved(r) \/ RedetectResolved(r)

\* C4: when a newer detection run has been started while an earlier one is
\* still awaiting its decode, the earlier run's result is never committed to
\* segments: only the run started last commits.
C4_StaleRunNeverCommits ==
    [][\A r \in pending : r.id # latestDetect => ~Commits(r)]_vars

\* a file is loaded, the state is READY and no promise is outstanding
Settled == file # NoFile /\ state = "READY" /\ pending = {}

\* C5: whenever the state settles in READY with a file loaded, segments equals
\* detectSilence(source, current thresholdDb, current minSilenceDuration): no
\* change of either setting is lost, whatever the state it was made in.
C5_SettledMatchesConfig ==
    Settled =>
        segments = DetectSilence(FileSamples(file), FileRate(file),
                                 thresholdDb, minSilenceDuration)

\* C6: whenever a detection run fails, in processFile or in a re-detection
\* started by a slider, the state becomes ERROR and the run commits no segments.
C6_FailedRunGoesToError ==
    [][\A r \in pending :
          (ProcessFileFailed(r) \/ RedetectFailed(r)) =>
              (state' = "ERROR" /\ segments' = segments)]_vars

\* a user action other than supplying a file
OtherUserAction ==
    \/ \E v \in SliderThresholds : HandleThresholdChange(v)
    \/ \E v \in SliderMinSilences : HandleMinSilenceChange(v)
    \/ HandleAnalyzeAi
    \/ HandleLinkSubmit
    \/ \E p \in Platforms : DownloadScript(p)
    \/ ResetProject

\* C7: once the state is ERROR, every user action other than supplying a new
\* file through processFile leaves it ERROR.
C7_ErrorIsTerminal ==
    [][(state = "ERROR" /\ OtherUserAction) => state' = "ERROR"]_vars

\* C8: downloadScript (and with it generateFfmpegScript) runs only while the
\* state is READY.
C8_ExportOnlyWhenReady ==
    [][(\E p \in Platforms : DownloadScript(p)) => state = "READY"]_vars

\* C9: while no file is loaded (initially and after Reset Project) segments
\* is empty, whatever detection runs were pending at the reset.
C9_NoFileNoSegments ==
    file = NoFile => segments = <<>>

----------------------------------------------------------------------------
(* Properties of the trim filter *)

\* the indices of the non-silent segments that meet the trim range
KeptIndices(segs, trimStart, trimEnd) ==
    {k \in 1..Len(segs) :
        /\ ~segs[k].isSilent
        /\ ~(segs[k].end < trimStart \/ segs[k].start > trimEnd)}

\* the timeline and trim range of scenario C, and the list it expects
ScenarioC ==
    <<Segment(0, 2 * TicksPerSec, FALSE),
      Segment(2 * TicksPerSec, 3 * TicksPerSec, TRUE),
      Segment(3 * TicksPerSec, 10 * TicksPerSec, FALSE)>>

ScenarioCActive ==
    <<Segment(1 * TicksPerSec, 2 * TicksPerSec, FALSE),
      Segment(3 * TicksPerSec, 5 * TicksPerSec, FALSE)>>

\* C10: for trimStart <= trimEnd the active-segment list is exactly, in the
\* original order, the non-silent segments with not (end < trimStart or
\* start > trimEnd), each clipped to [max(start, trimStart), min(end, trimEnd)];
\* timeline [0,2,active],[2,3,silent],[3,10,active] with trim [1,5] gives
\* [1,2),[3,5).
C10_ActiveListIsClippedFilter ==
    (epc = "out" /\ eTrimStart <= eTrimEnd) =>
        LET kept == KeptIndices(eSegments, eTrimStart, eTrimEnd)
            rank(k) == Cardinality({j \in kept : j <= k})
        IN  /\ Len(activeSegments) = Cardinality(kept)
            /\ \A k \in kept :
                  /\ activeSegments[rank(k)].start = Max(eSegments[k].start, eTrimStart)
                  /\ activeSegments[rank(k)].end = Min(eSegments[k].end, eTrimEnd)
                  /\ ~activeSegments[rank(k)].isSilent
            /\ (eSegments = ScenarioC /\ eTrimStart = 1 * TicksPerSec
                    /\ eTrimEnd = 5 * TicksPerSec)
                  => activeSegments = ScenarioCActive

\* the filter has run on scenario C
C10_Witness ==
    /\ epc = "out"
    /\ eSegments = ScenarioC
    /\ eTrimStart = 1 * TicksPerSec
    /\ eTrimEnd = 5 * TicksPerSec
    /\ Len(activeSegments) = 2

----------------------------------------------------------------------------
(* Properties of the final duration *)

\* the sum of (end - start) over a list of segments: the -t durations of the
\* extract commands made from it
RECURSIVE SumOfDurations(_)
SumOfDurations(segs) ==
    IF segs = <<>> THEN 0
    ELSE (Head(segs).end - Head(segs).start) + SumOfDurations(Tail(segs))

\* C11: whenever trimEnd <= trimStart the active-segment list derived for the
\* export is empty and the final duration of calculateFinalDuration is 0.
C11_EmptyTrimGivesNothing ==
    (epc = "done" /\ eTrimEnd <= eTrimStart) =>
        (activeSegments = <<>> /\ eFinalDuration = 0)

\* C12: for every timeline and every trim range the final duration equals the
\* sum of (end - start) over the clipped active-segment list.
C12_FinalDurationIsSumOfClipped ==
    epc = "done" => eFinalDuration = SumOfDurations(activeSegments)

\* the end of the last segment of the timeline (0 for the empty one)
TimelineTotal(segs) == IF segs = <<>> THEN 0 ELSE segs[Len(segs)].end

\* C13: the final duration does not shrink when the trim range widens (every
\* range [s1, e1] inside [trimStart, trimEnd] gives at most as much), and over
\* [0, totalDuration] it is at most totalDuration.
C13_FinalDurationMonotonic ==
    (epc = "done" /\ eTrimStart <= eTrimEnd) =>
        /\ \A s1 \in {x \in TrimTimes : eTrimStart <= x /\ x <= eTrimEnd} :
              \A e1 \in {x \in TrimTimes : s1 <= x /\ x <= eTrimEnd} :
                 eFinalDuration >= CalculateFinalDuration(eSegments, s1, e1)
        /\ (eTrimStart = 0 /\ eTrimEnd = TimelineTotal(eSegments)) =>
              eFinalDuration <= TimelineTotal(eSegments)

\* a timeline with silence in it, trimmed strictly inside on both sides, and a
\* final duration that a narrower range makes strictly smaller
C13_Witness ==
    /\ epc = "done"
    /\ Len(eSegments) >= 3
    /\ 0 < eTrimStart
    /\ eTrimStart < eTrimEnd
    /\ eTrimEnd < TimelineTotal(eSegments)
    /\ 0 < eFinalDuration
    /\ eFinalDuration < eTrimEnd - eTrimStart
    /\ \E s1 \in TrimTimes, e1 \in TrimTimes :
          /\ eTrimStart <= s1 /\ s1 <= e1 /\ e1 <= eTrimEnd
          /\ CalculateFinalDuration(eSegments, s1, e1) < eFinalDuration

----------------------------------------------------------------------------
(* detectSilence on an empty buffer *)

\* C20: detectSilence applied to a buffer with zero samples returns an empty
\* timeline, with no segment at all.
C20_EmptyBufferEmptyTimeline ==
    (dpc = "done" /\ Len(rawData) = 0) => mergedSegments = <<>>

----------------------------------------------------------------------------
(* Properties of the trim range *)

\* C14: with a loaded source, after any sequence of trim edits, the trim range
\* that the consumers read satisfies 0 <= trimStart <= trimEnd <= originalDuration.
C14_TrimRangeWithinSource ==
    file # NoFile =>
        /\ 0 <= exportConfig.trimStart
        /\ exportConfig.trimStart <= exportConfig.trimEnd
        /\ exportConfig.trimEnd <= originalDuration

----------------------------------------------------------------------------
(* Properties of the generated script *)

\* the extract commands and the manifest writes of the script, in order
ExtractLines == SelectSeq(script, LAMBDA l : l.kind = "extract")

ManifestLines == SelectSeq(script, LAMBDA l : l.kind = "manifest")

\* the number written by a sequence of decimal digits
RECURSIVE DigitsValue(_)
DigitsValue(digits) ==
    IF digits = <<>> THEN 0
    ELSE 10 * DigitsValue(SubSeq(digits, 1, Len(digits) - 1)) + digits[Len(digits)]

\* n counts of 1/10000 s is exactly t ticks
ExactlyTicks(n, t) == n * TicksPerSec = t * 10000

\* n counts of 1/10000 s is t ticks to 4 decimal places: no count is nearer
NearestToTicks(n, t) ==
    LET diff == n * TicksPerSec - t * 10000
    IN  2 * diff <= TicksPerSec /\ -2 * diff <= TicksPerSec

\* C15 as stated: one extract command per active segment, in timeline order,
\* the k-th (k from 0) writing part_<k zero-padded to 4 digits>, with -ss equal
\* to the segment's clipped start and -t equal to its clipped end minus start.
C15_ExtractArgumentsExact ==
    gpc = "done" =>
        /\ Len(ExtractLines) = Len(gActive)
        /\ \A k \in 1..Len(ExtractLines) :
              /\ Len(ExtractLines[k].out.digits) = 4
              /\ DigitsValue(ExtractLines[k].out.digits) = k - 1
              /\ ExactlyTicks(ExtractLines[k].ss, gActive[k].start)
              /\ ExactlyTicks(ExtractLines[k].t, gActive[k].end - gActive[k].start)

\* C15 amended: one extract command per active segment, in timeline order, the
\* k-th (k from 0) writing part_<k zero-padded to 4 digits>, with -ss the
\* segment's clipped start and -t its clipped end minus start, each rounded to
\* 4 decimal places.
C15_ExtractPerActiveSegment ==
    gpc = "done" =>
        /\ Len(ExtractLines) = Len(gActive)
        /\ \A k \in 1..Len(ExtractLines) :
              /\ Len(ExtractLines[k].out.digits) = 4
              /\ DigitsValue(ExtractLines[k].out.digits) = k - 1
              /\ NearestToTicks(ExtractLines[k].ss, gActive[k].start)
              /\ NearestToTicks(ExtractLines[k].t, gActive[k].end - gActive[k].start)

\* a win script with two extract commands, the first one starting at a trim
\* start that 4 decimal places do not write exactly
C15_Witness ==
    /\ gpc = "done"
    /\ gPlatform = "win"
    /\ Len(ExtractLines) = 2
    /\ gActive[1].start = gConfig.trimStart
    /\ ~ExactlyTicks(ExtractLines[1].ss, gActive[1].start)
    /\ ExtractLines[2].out.digits = <<0, 0, 0, 1>>

\* C16: for both dialects and every export format the concat manifest lists
\* exactly the file names the extract commands wrote (same base name, same
\* extension), in the same order.
C16_ManifestListsExtractOutputs ==
    gpc = "done" =>
        /\ Len(ManifestLines) = 1
        /\ Len(ManifestLines[1].entries) = Len(ExtractLines)
        /\ \A k \in 1..Len(ExtractLines) :
              ManifestLines[1].entries[k] = ExtractLines[k].out

\* C17: for each of the six ExportFormat values, mp4, mov and avi are not
\* audio-only and every extract command names a video codec; mp3, wav and aac
\* are audio-only and every extract command uses -vn and no video codec; both
\* dialects render the same codec pair.
C17_CodecResolutionTotal ==
    (gpc = "done" /\ gConfig.format \in ExportFormats) =>
        \A k \in 1..Len(ExtractLines) :
            LET l == ExtractLines[k]
                u == UnixExtractLine(gFilename, gActive[k], k - 1, gConfig.format)
                w == WinExtractLine(gFilename, gActive[k], k - 1, gConfig.format)
            IN  /\ gConfig.format \in {"mp4", "mov", "avi"} =>
                      /\ Len(l.video) >= 2
                      /\ l.video[1] = "-c:v"
                      /\ l.video[2] \in {"libx264", "mpeg4"}
                      /\ \A j \in 1..Len(l.video) : l.video[j] # "-vn"
                /\ gConfig.format \in {"mp3", "wav", "aac"} => l.video = <<"-vn">>
                /\ l.audio \in {"aac", "libmp3lame", "pcm_s16le"}
                /\ u.video = w.video /\ u.audio = w.audio
                /\ l.video = u.video /\ l.audio = u.audio

\* a win script for aac whose extract command drops the video
C17_Witness ==
    /\ gpc = "done"
    /\ gPlatform = "win"
    /\ gConfig.format = "aac"
    /\ Len(ExtractLines) >= 1
    /\ ExtractLines[1].video = <<"-vn">>
    /\ ExtractLines[1].audio = "aac"

\* C18: called with a format that is not an ExportFormat value,
\* generateFfmpegScript returns no script text.
C18_UnsupportedFormatIsError ==
    (gpc = "done" /\ gConfig.format \notin ExportFormats) => script = <<>>

\* text is name with a backslash put before each double quote, backslash,
\* dollar sign and backtick, and nothing else changed
RECURSIVE IsEscapingOf(_, _)
IsEscapingOf(text, name) ==
    IF name = <<>> THEN text = <<>>
    ELSE IF Head(name) \in ShellSpecials
         THEN /\ Len(text) >= 2
              /\ text[1] = "\\"
              /\ text[2] = Head(name)
              /\ IsEscapingOf(SubSeq(text, 3, Len(text)), Tail(name))
         ELSE /\ Len(text) >= 1
              /\ text[1] = Head(name)
              /\ IsEscapingOf(Tail(text), Tail(name))

\* C19: in the unix dialect, wherever the source filename, the output name or
\* the background-track name is interpolated into an executable line, each
\* double quote, backslash, dollar sign and backtick of it is preceded by a
\* backslash.
C19_PosixNamesEscaped ==
    (gpc = "done" /\ gPlatform = "unix") =>
        LET outputName == OutputName(gFilename, gConfig.format)
        IN  \A i \in 1..Len(script) :
               LET l == script[i]
               IN  /\ l.kind = "extract" => IsEscapingOf(l.input, gFilename)
                   /\ (l.kind = "concat" /\ gConfig.bgMusicName = NoBgMusic) =>
                          IsEscapingOf(l.out, outputName)
                   /\ l.kind = "mix" =>
                          /\ IsEscapingOf(l.bg, gConfig.bgMusicName)
                          /\ IsEscapingOf(l.out, outputName)
                   /\ (l.kind = "echo" /\ l.text[1] = "Done! Saved to ") =>
                          IsEscapingOf(Tail(l.text), outputName)

----------------------------------------------------------------------------
(* The concatenate and mix commands, and the extract durations *)

\* positions in the script of the lines of one kind
LinesOfKind(kind) == {i \in 1..Len(script) : script[i].kind = kind}

\* C24: in both dialects the script holds exactly one concatenate command; it
\* holds a background-mix command (two-input amix, weights 1 and 0.2) if and
\* only if a background track name is configured; the mix command then comes
\* after the concatenate command, reads what that one wrote and writes the
\* final output name; otherwise the concatenate command writes the final
\* output name.
C24_OneConcatMixIffBackground ==
    gpc = "done" =>
        LET outputName == OutputName(gFilename, gConfig.format)
            concats == LinesOfKind("concat")
            mixes == LinesOfKind("mix")
        IN  /\ Cardinality(concats) = 1
            /\ (mixes # {}) <=> (gConfig.bgMusicName # NoBgMusic)
            /\ \A c \in concats :
                  /\ mixes = {} => script[c].out = outputName
                  /\ mixes # {} =>
                        /\ Cardinality(mixes) = 1
                        /\ script[c].out # outputName
                        /\ \A m \in mixes :
                              /\ m > c
                              /\ script[m].filter =
                                    "amix=inputs=2:duration=first:weights=1 0.2"
                              /\ script[m].base = script[c].out
                              /\ script[m].bg = BgMusicFilename(gConfig.bgMusicName, gPlatform)
                              /\ script[m].out = outputName

\* a win script with a background track: the concatenate command writes the
\* temporary file and the mix command after it writes the final name
C24_Witness ==
    /\ gpc = "done"
    /\ gPlatform = "win"
    /\ gConfig.bgMusicName # NoBgMusic
    /\ Len(ExtractLines) >= 1
    /\ \E c \in LinesOfKind("concat") : \E m \in LinesOfKind("mix") :
          /\ c < m
          /\ script[c].out = <<"segments\\temp_concat", ".", gConfig.format>>
          /\ script[m].out = OutputName(gFilename, gConfig.format)

\* the second half of C25: called with a timeline and a trim range that leave
\* no active segment, generateFfmpegScript returns a complete script with no
\* extract command, an empty concat manifest and one concatenate command.
EmptyPlanScriptComplete ==
    (gpc = "done" /\ gActive = <<>>) =>
        /\ ExtractLines = <<>>
        /\ Len(ManifestLines) = 1
        /\ ManifestLines[1].entries = <<>>
        /\ Cardinality(LinesOfKind("concat")) = 1
        /\ script[Len(script) - (IF gPlatform = "win" THEN 2 ELSE 1)].kind = "echo"

\* C29: every extract command of the script has a strictly positive duration
\* (-t > 0), for every timeline and every trim range, an active segment ending
\* at trimStart or starting at trimEnd and trimEnd < trimStart included.
C29_ExtractDurationPositive ==
    gpc = "done" => \A k \in 1..Len(ExtractLines) : ExtractLines[k].t > 0

----------------------------------------------------------------------------
(* AI analyses and exports of the App component *)

\* C23: analyzeContent never rejects: when the AI call fails (missing key,
\* network error, unparsable response) its promise resolves with the fixed
\* placeholder whose tags are "error", "offline" and whose viralScore is 0; so
\* the run of handleAnalyzeAi or handleLinkSubmit that awaited it ends with
\* the state READY, neither left in ANALYZING_AI nor put in ERROR.
C23_AiRunAlwaysEndsReady ==
    [][\A r \in pending, outcome \in AiOutcomes :
          (AnalyzeAiDone(r, outcome) \/ LinkSubmitDone(r, outcome)) =>
              /\ AnalyzeContent(outcome) # Rejected
              /\ state' = "READY"
              /\ outcome = "ok" => aiAnalysis' = AiAnswer
              /\ outcome # "ok" =>
                    /\ aiAnalysis' = AiPlaceholder
                    /\ AiPlaceholder.tags = <<"error", "offline">>
                    /\ AiPlaceholder.viralScore = 0]_vars

\* an analysis of a loaded file whose AI call failed: the placeholder is shown
\* and the state is READY with nothing pending
C23_Witness ==
    /\ file # NoFile
    /\ segments # <<>>
    /\ aiAnalysis = AiPlaceholder
    /\ aiAnalysis = AnalyzeContent("network_error")
    /\ state = "READY"
    /\ pending = {}

\* the timeline and trim range of the App leave nothing to export
EmptyPlan ==
    ActiveSegments(segments, exportConfig.trimStart, exportConfig.trimEnd) = <<>>

\* C25: when the active-segment list of the current timeline and trim range
\* is empty, downloadScript does not generate a script (it flags the condition
\* instead).  Stated for a detected timeline in the READY state.
C25_EmptyPlanNotGenerated ==
    [][(state = "READY" /\ segments # <<>> /\ EmptyPlan) => download' = download]_vars

\* C26: an export (downloadScript, and generateFfmpegScript called by it)
\* leaves the processing state, the segments, the detection settings and the
\* export configuration unchanged, and the script is made from that unchanged
\* timeline; a trim edit, after which calculateFinalDuration runs on the
\* timeline, leaves every segment as it was.
C26_ExportLeavesStateUnchanged ==
    [][/\ (\E p \in Platforms : DownloadScript(p)) =>
             /\ UNCHANGED <<state, segments, thresholdDb, minSilenceDuration, exportConfig>>
             /\ UNCHANGED <<file, finalDuration, originalDuration>>
             /\ download'.active = ActiveSegments(segments', exportConfig'.trimStart,
                                                  exportConfig'.trimEnd)
             /\ download'.format = exportConfig'.format
             /\ download'.bgMusicName = exportConfig'.bgMusicFile
       /\ (/\ segments # <<>>
           /\ \E v \in TrimInputs : HandleTrimStartInput(v) \/ HandleTrimEndInput(v)) =>
             /\ segments' = segments
             /\ finalDuration' = CalculateFinalDuration(segments', exportConfig'.trimStart,
                                                        exportConfig'.trimEnd)]_vars

\* an export of a timeline of several segments under a trim range that clips
\* its first active segment: the timeline still starts at 0
C26_Witness ==
    /\ download.count > 0
    /\ state = "READY"
    /\ Len(segments) >= 2
    /\ segments[1].start = 0
    /\ ~segments[1].isSilent
    /\ download.active # <<>>
    /\ download.active[1].start > 0
    /\ download.active[1].start = exportConfig.trimStart
    /\ finalDuration = SumOfDurations(download.active)

----------------------------------------------------------------------------
(* Properties of the preview's virtual time *)

\* C30: for every timeline and every trim range with trimStart <= trimEnd,
\* calculateVirtualTime is non-decreasing in realTime, is 0 for
\* realTime <= trimStart, and at realTime = trimEnd equals what
\* calculateFinalDuration gives for the same timeline and trim range.
C30_VirtualTimeTracksFinalDuration ==
    (ppc = "done" /\ pTrimStart <= pTrimEnd) =>
        /\ \A t \in PreviewTimes :
              t <= pRealTime =>
                  CalculateVirtualTime(pSegments, t, pTrimStart, pTrimEnd) <= pVirtual
        /\ pRealTime <= pTrimStart => pVirtual = 0
        /\ pRealTime = pTrimEnd =>
              pVirtual = CalculateFinalDuration(pSegments, pTrimStart, pTrimEnd)

\* the virtual time at the end of a trim range that starts after the first
\* segment has ended, cuts an active segment and holds a silent one
C30_Witness ==
    /\ ppc = "done"
    /\ Len(pSegments) >= 3
    /\ pSegments[1].end < pTrimStart
    /\ pRealTime = pTrimEnd
    /\ \E k \in 1..Len(pSegments) :
          /\ ~pSegments[k].isSilent
          /\ pSegments[k].start < pTrimStart
          /\ pTrimStart < pSegments[k].end
    /\ \E k \in 1..Len(pSegments) :
          /\ pSegments[k].isSilent
          /\ pTrimStart < pSegments[k].start
          /\ pSegments[k].end < pTrimEnd
    /\ pVirtual > 0
    /\ pVirtual < pTrimEnd - pTrimStart

====
